---- MODULE Spec2Model ----
(***************************************************************************)
(* Gobblet (3x3, 2 pieces per size class per player): the game state and   *)
(* the click handler of src/gobbletgame.py as a state machine.             *)
(*                                                                         *)
(* A piece object is a piece id 1..12 in creation order (RED large, large, *)
(* medium, medium, small, small, then YELLOW likewise); its player and     *)
(* size never change, its x, y, on_board and visible fields are state.     *)
(* A cell is addressed by <<row, col>>, rows and columns 0..2.             *)
(***************************************************************************)
EXTENDS Integers, Sequences, FiniteSets, TLC

\* ------------------------------------------------------------ constants
SCREEN_WIDTH == 800
BOARD_SIZE == 3
CELL_SIZE == 120
BOARD_OFFSET_X == (SCREEN_WIDTH - BOARD_SIZE * CELL_SIZE) \div 2
BOARD_OFFSET_Y == 100
\* PIECE_SIZES[size + 1] is the radius of a piece of size index `size`.
PIECE_SIZES == <<60, 40, 20>>

\* GameState
PLAYING == "PLAYING"
RED_WINS == "RED_WINS"
YELLOW_WINS == "YELLOW_WINS"
DRAW == "DRAW"
GameState == {PLAYING, RED_WINS, YELLOW_WINS, DRAW}

\* Player; PlayerValue is the enum's value, NoPlayer is check_win's None.
RED == "RED"
YELLOW == "YELLOW"
NoPlayer == "NONE"
Player == {RED, YELLOW}
PlayerValue(player) == IF player = RED THEN 0 ELSE 1

\* The inventory loops of __init__ / reset_game: range(3) sizes, range(2) copies.
NumSizes == 3
PiecesPerSize == 2
PiecesPerPlayer == NumSizes * PiecesPerSize
PieceIds == 1 .. (2 * PiecesPerPlayer)
\* None for selected_piece / top_piece, None for original_cell / target_cell.
NoPiece == 0
NoCell == <<>>

Range(seq) == {seq[i] : i \in 1 .. Len(seq)}
Rows == 0 .. (BOARD_SIZE - 1)
Cols == 0 .. (BOARD_SIZE - 1)
Coords == {<<row, col>> : row \in Rows, col \in Cols}

\* Piece.__init__: the immutable fields of the piece created p-th.
piece_player(p) == IF p <= PiecesPerPlayer THEN RED ELSE YELLOW
piece_size(p) == ((p - 1) % PiecesPerPlayer) \div PiecesPerSize
piece_radius(p) == PIECE_SIZES[piece_size(p) + 1]

\* Cell.__init__: the cell's centre.
cell_x(col) == BOARD_OFFSET_X + col * CELL_SIZE + CELL_SIZE \div 2
cell_y(row) == BOARD_OFFSET_Y + row * CELL_SIZE + CELL_SIZE \div 2

\* ---------------------------------------------------------------- state
VARIABLES
  cells,            \* board.cells[row][col].pieces: the stack, bottom to top
  px, py,           \* piece.x, piece.y
  on_board,         \* piece.on_board
  visible,          \* piece.visible
  reserve_pieces,   \* reserve_pieces[player]: the list of the player's pieces
  history,          \* board.history
  state,            \* GameState
  current_player,
  selected_piece,   \* a piece id or NoPiece
  original_cell,    \* <<row, col>> or NoCell
  clicks,           \* MOUSEBUTTONDOWN events the run loop has handled
  click,            \* the position of the event handled last, <<>> before any
  branch,           \* the branch of handle_click that event took
  call,             \* a direct call of a Cell / Board method: name and arguments
  ret               \* its return value

gameVars == <<cells, px, py, on_board, visible, reserve_pieces, history, state,
              current_player, selected_piece, original_cell>>
vars == <<cells, px, py, on_board, visible, reserve_pieces, history, state,
          current_player, selected_piece, original_cell, clicks, click, branch,
          call, ret>>

\* The game object as one value, for the operators below.
Game ==
  [cells |-> cells, px |-> px, py |-> py, on_board |-> on_board,
   visible |-> visible, reserve_pieces |-> reserve_pieces, history |-> history,
   state |-> state, current_player |-> current_player,
   selected_piece |-> selected_piece, original_cell |-> original_cell]

\* ----------------------------------------------------------------- Cell
\* Cell.top_piece
top_piece(pieces) == IF pieces # <<>> THEN pieces[Len(pieces)] ELSE NoPiece

\* can_place_piece with > for <: only a smaller piece may cover a larger one.
can_place_piece_reversed(pieces, piece) ==
  IF pieces = <<>> THEN TRUE
  ELSE piece_size(piece) > piece_size(pieces[Len(pieces)])

\* can_place_piece with <= for <: a piece of equal size is accepted.
can_place_piece_leq(pieces, piece) ==
  IF pieces = <<>> THEN TRUE
  ELSE piece_size(piece) <= piece_size(pieces[Len(pieces)])

\* can_place_piece that also lets a piece cover any piece of the other player.
can_place_piece_on_opponent(pieces, piece) ==
  IF pieces = <<>> THEN TRUE
  ELSE \/ piece_size(piece) < piece_size(pieces[Len(pieces)])
       \/ piece_player(piece) # piece_player(pieces[Len(pieces)])

\* Cell.can_place_piece
can_place_piece(pieces, piece) ==
  IF pieces = <<>> THEN TRUE
  ELSE piece_size(piece) < piece_size(top_piece(pieces))

\* list.remove: drops the first occurrence.
ListRemove(pieces, piece) ==
  LET i == CHOOSE k \in 1 .. Len(pieces) :
             pieces[k] = piece /\ \A j \in 1 .. (k - 1) : pieces[j] # piece
  IN  SubSeq(pieces, 1, i - 1) \o SubSeq(pieces, i + 1, Len(pieces))

\* add_piece whose loop (lines 71-72) clears on_board instead of visible: the
\* covered pieces count as back in reserve.
add_piece_unplaces_covered(g, row, col, piece) ==
  LET pieces == g.cells[row][col]
  IN  [g EXCEPT
        !.px[piece] = cell_x(col),
        !.py[piece] = cell_y(row),
        !.on_board = [p \in PieceIds |->
                        IF p = piece THEN TRUE
                        ELSE IF p \in Range(pieces) THEN FALSE
                        ELSE g.on_board[p]],
        !.visible[piece] = TRUE,
        !.cells[row][col] = Append(pieces, piece)]

\* Cell.add_piece on the cell at <<row, col>>
add_piece(g, row, col, piece) ==
  LET pieces == g.cells[row][col]
  IN  [g EXCEPT
        !.px[piece] = cell_x(col),
        !.py[piece] = cell_y(row),
        !.on_board[piece] = TRUE,
        !.visible = [p \in PieceIds |->
                       IF p = piece THEN TRUE
                       ELSE IF p \in Range(pieces) THEN FALSE
                       ELSE g.visible[p]],
        !.cells[row][col] = Append(pieces, piece)]

\* remove_piece that leaves the piece in its cell.
remove_piece_kept(g, row, col, piece) == g

\* remove_piece without lines 82-83: the uncovered piece stays hidden.
remove_piece_hidden(g, row, col, piece) ==
  IF piece \in Range(g.cells[row][col])
  THEN [g EXCEPT !.cells[row][col] = ListRemove(g.cells[row][col], piece)]
  ELSE g

\* Cell.remove_piece on the cell at <<row, col>>
remove_piece(g, row, col, piece) ==
  LET pieces == g.cells[row][col]
      rest == ListRemove(pieces, piece)
  IN  IF piece \in Range(pieces)
      THEN [g EXCEPT
             !.cells[row][col] = rest,
             !.visible = IF rest # <<>>
                         THEN [g.visible EXCEPT ![rest[Len(rest)]] = TRUE]
                         ELSE g.visible]
      ELSE g

\* ---------------------------------------------------------------- Board
\* Board.get_cell_at_position: the first cell, rows then columns, that holds (x, y).
get_cell_at_position(x, y) ==
  LET hits == {rc \in Coords :
                 LET cx == BOARD_OFFSET_X + rc[2] * CELL_SIZE
                     cy == BOARD_OFFSET_Y + rc[1] * CELL_SIZE
                 IN  /\ cx <= x /\ x < cx + CELL_SIZE
                     /\ cy <= y /\ y < cy + CELL_SIZE}
  IN  IF hits = {} THEN NoCell
      ELSE CHOOSE rc \in hits :
             \A other \in hits :
               rc[1] < other[1] \/ (rc[1] = other[1] /\ rc[2] <= other[2])

\* check_win, lines 131-140: the matrix of visible top pieces (NoPiece for None).
visible_pieces(g) ==
  [row \in Rows |-> [col \in Cols |->
     LET pieces == g.cells[row][col]
     IN  IF pieces # <<>> /\ g.visible[pieces[Len(pieces)]]
         THEN pieces[Len(pieces)] ELSE NoPiece]]

\* `piece and piece.player == player`
OwnedBy(piece, player) == piece # NoPiece /\ piece_player(piece) = player

\* HasLine without lines 159-162: the anti-diagonal is not scanned.
HasLine_no_anti_diagonal(vp, player) ==
  \/ \E row \in Rows : \A col \in Cols : OwnedBy(vp[row][col], player)
  \/ \E col \in Cols : \A row \in Rows : OwnedBy(vp[row][col], player)
  \/ \A i \in Rows : OwnedBy(vp[i][i], player)

\* check_win, lines 144-162: the body of the loop over players, for one player.
HasLine(vp, player) ==
  \/ \E row \in Rows : \A col \in Cols : OwnedBy(vp[row][col], player)
  \/ \E col \in Cols : \A row \in Rows : OwnedBy(vp[row][col], player)
  \/ \A i \in Rows : OwnedBy(vp[i][i], player)
  \/ \A i \in Rows : OwnedBy(vp[i][BOARD_SIZE - 1 - i], player)

\* The loop of line 143 with the players the other way round.
PlayerOrder_yellow_first == <<YELLOW, RED>>

\* check_win, line 143: the order in which the players are tried.
PlayerOrder == <<RED, YELLOW>>

\* The eight lines in the order lines 145-162 scan them for one player: rows 0,
\* 1, 2, columns 0, 1, 2, the main diagonal, the anti-diagonal.
ScanLines ==
  <<{<<0, c>> : c \in Cols}, {<<1, c>> : c \in Cols}, {<<2, c>> : c \in Cols},
    {<<r, 0>> : r \in Rows}, {<<r, 1>> : r \in Rows}, {<<r, 2>> : r \in Rows},
    {<<i, i>> : i \in Rows}, {<<i, BOARD_SIZE - 1 - i>> : i \in Rows}>>

\* The player whose pieces fill the line, or NoPlayer.
LineOwner(vp, line) ==
  IF \A rc \in line : OwnedBy(vp[rc[1]][rc[2]], RED) THEN RED
  ELSE IF \A rc \in line : OwnedBy(vp[rc[1]][rc[2]], YELLOW) THEN YELLOW
  ELSE NoPlayer

\* The owner of the first complete line in scan order, or NoPlayer.
FirstLineOwner(vp) ==
  LET won == {k \in 1 .. Len(ScanLines) : LineOwner(vp, ScanLines[k]) # NoPlayer}
  IN  IF won = {} THEN NoPlayer
      ELSE LineOwner(vp, ScanLines[CHOOSE k \in won : \A j \in won : k <= j])

\* check_win with the loop over players (line 143) inside the scan of the
\* lines: the first complete line in scan order decides.
check_win_matrix_line_first(vp) == FirstLineOwner(vp)

\* check_win, lines 142-163, on the matrix of visible pieces.
check_win_matrix(vp) ==
  LET winners == {i \in 1 .. Len(PlayerOrder) : HasLine(vp, PlayerOrder[i])}
  IN  IF winners = {} THEN NoPlayer
      ELSE PlayerOrder[CHOOSE i \in winners : \A j \in winners : i <= j]

\* check_win that tries the player to move before the other player.
check_win_mover_first(g) ==
  IF HasLine(visible_pieces(g), g.current_player) THEN g.current_player
  ELSE IF HasLine(visible_pieces(g), IF g.current_player = RED THEN YELLOW ELSE RED)
  THEN IF g.current_player = RED THEN YELLOW ELSE RED
  ELSE NoPlayer

\* Board.check_win (last_move_cell is not read by the code).
check_win(g) == check_win_matrix(visible_pieces(g))

\* Board.save_state: the snapshot, cells in row-major order.
Snapshot(g) ==
  [k \in 1 .. (BOARD_SIZE * BOARD_SIZE) |->
     LET pieces == g.cells[(k - 1) \div BOARD_SIZE][(k - 1) % BOARD_SIZE]
     IN  [i \in 1 .. Len(pieces) |->
            [player |-> PlayerValue(piece_player(pieces[i])),
             size |-> piece_size(pieces[i]),
             visible |-> g.visible[pieces[i]]]]]

save_state(g) == [g EXCEPT !.history = Append(g.history, Snapshot(g))]

\* ---------------------------------------------------------- GobbletGame
\* update_reserve_positions: piece `p`'s index among the off-board pieces of its
\* player and size, in reserve-list order.
ReserveIndex(g, p) ==
  LET list == g.reserve_pieces[piece_player(p)]
      at == CHOOSE k \in 1 .. Len(list) : list[k] = p
  IN  Cardinality({k \in 1 .. (at - 1) :
                     /\ ~g.on_board[list[k]]
                     /\ piece_size(list[k]) = piece_size(p)})

update_reserve_positions(g) ==
  LET x_base(player) == IF player = RED THEN 50 ELSE SCREEN_WIDTH - 50
      y_base == 200
      off(p) == ~g.on_board[p] /\ p \in Range(g.reserve_pieces[piece_player(p)])
  IN  [g EXCEPT
        !.px = [p \in PieceIds |->
                  IF off(p)
                  THEN x_base(piece_player(p))
                       + (IF piece_player(p) = YELLOW THEN 20 ELSE -20)
                         * ReserveIndex(g, p)
                  ELSE g.px[p]],
        !.py = [p \in PieceIds |->
                  IF off(p)
                  THEN y_base + piece_size(p) * 70 + ReserveIndex(g, p) * 40
                  ELSE g.py[p]]]

\* The inventory loops of __init__ (lines 203-211) and reset_game (294-301).
NewReserve ==
  [player \in Player |->
     [k \in 1 .. PiecesPerPlayer |->
        IF player = RED THEN k ELSE PiecesPerPlayer + k]]

\* GobbletGame.__init__ and reset_game build the same game: a new Board, new
\* pieces (x = y = 0, on_board = False, visible = True), then the positions.
NewGame ==
  update_reserve_positions(
    [cells |-> [row \in Rows |-> [col \in Cols |-> <<>>]],
     px |-> [p \in PieceIds |-> 0],
     py |-> [p \in PieceIds |-> 0],
     on_board |-> [p \in PieceIds |-> FALSE],
     visible |-> [p \in PieceIds |-> TRUE],
     reserve_pieces |-> NewReserve,
     history |-> <<>>,
     state |-> PLAYING,
     current_player |-> RED,
     selected_piece |-> NoPiece,
     original_cell |-> NoCell])

\* reset_game that clears the old board instead of building a new one: the
\* history survives.
reset_game_keeps_history(g) == [NewGame EXCEPT !.history = g.history]

\* GobbletGame.reset_game
reset_game(g) == NewGame

\* ------------------------------------------------------------ the inputs
\* run, lines 343-345: event.pos of a left click. One position per cell (its
\* centre), one per reserve slot (player, size, index: just above the lower edge
\* of the slot's hit box, where no earlier slot's box reaches), one off the board.
CellClick(row, col) == <<cell_x(col), cell_y(row)>>
SlotClick(player, size, i) ==
  <<(IF player = RED THEN 50 ELSE SCREEN_WIDTH - 50)
      + (IF player = YELLOW THEN 20 ELSE -20) * i,
    200 + size * 70 + i * 40 + PIECE_SIZES[size + 1] - 5>>
OutsideClick == <<SCREEN_WIDTH \div 2, BOARD_OFFSET_Y \div 2>>
ClickPoints ==
  {CellClick(rc[1], rc[2]) : rc \in Coords}
    \cup {SlotClick(player, size, i) :
            player \in Player, size \in 0 .. (NumSizes - 1), i \in 0 .. (PiecesPerSize - 1)}
    \cup {OutsideClick}

\* get_cell_at_position at each click position.
CellAtClick == [pt \in ClickPoints |-> get_cell_at_position(pt[1], pt[2])]

\* InHitBox without the `not` of line 282: only placed pieces are hit.
InHitBox_on_board(g, piece, x, y) ==
  /\ g.on_board[piece]
  /\ g.px[piece] - piece_radius(piece) <= x
  /\ x <= g.px[piece] + piece_radius(piece)
  /\ g.py[piece] - piece_radius(piece) <= y
  /\ y <= g.py[piece] + piece_radius(piece)

\* handle_click, lines 282-284: the reserve piece's hit box holds (x, y).
InHitBox(g, piece, x, y) ==
  /\ ~g.on_board[piece]
  /\ g.px[piece] - piece_radius(piece) <= x
  /\ x <= g.px[piece] + piece_radius(piece)
  /\ g.py[piece] - piece_radius(piece) <= y
  /\ y <= g.py[piece] + piece_radius(piece)

\* handle_click, lines 281-287: the first reserve piece of the current player
\* that the click hits, or NoPiece.
ReserveHit(g, x, y) ==
  LET list == g.reserve_pieces[g.current_player]
      hits == {k \in 1 .. Len(list) : InHitBox(g, list[k], x, y)}
  IN  IF hits = {} THEN NoPiece
      ELSE list[CHOOSE k \in hits : \A j \in hits : k <= j]

\* Lines 240-241 without 241: the origin cell is not forgotten.
ClearSelection_keeps_origin(g) == [g EXCEPT !.selected_piece = NoPiece]

\* handle_click, lines 240-241, 264-265 and 270-271: the selection is dropped.
ClearSelection(g) == [g EXCEPT !.selected_piece = NoPiece, !.original_cell = NoCell]

\* DecideWinner with the switch of players (lines 259-262) outside the else.
DecideWinner_always_switches(g, winner) ==
  [(IF winner = RED THEN [g EXCEPT !.state = RED_WINS]
    ELSE IF winner = YELLOW THEN [g EXCEPT !.state = YELLOW_WINS]
    ELSE g)
   EXCEPT !.current_player = IF g.current_player = RED THEN YELLOW ELSE RED]

\* DecideWinner that takes the verdict only when it names the player who moved
\* (a win is looked for only where the mover just played).
DecideWinner_mover_only(g, winner) ==
  IF winner = RED /\ g.current_player = RED THEN [g EXCEPT !.state = RED_WINS]
  ELSE IF winner = YELLOW /\ g.current_player = YELLOW
  THEN [g EXCEPT !.state = YELLOW_WINS]
  ELSE [g EXCEPT !.current_player = IF g.current_player = RED THEN YELLOW ELSE RED]

\* DecideWinner that calls the game a draw when both players have a line.
DecideWinner_tie_is_draw(g, winner) ==
  IF HasLine(visible_pieces(g), RED) /\ HasLine(visible_pieces(g), YELLOW)
  THEN [g EXCEPT !.state = DRAW]
  ELSE IF winner = RED THEN [g EXCEPT !.state = RED_WINS]
  ELSE IF winner = YELLOW THEN [g EXCEPT !.state = YELLOW_WINS]
  ELSE [g EXCEPT !.current_player = IF g.current_player = RED THEN YELLOW ELSE RED]

\* DecideWinner that makes the winner the current player when the game ends.
DecideWinner_winner_to_move(g, winner) ==
  IF winner = RED THEN [g EXCEPT !.state = RED_WINS, !.current_player = RED]
  ELSE IF winner = YELLOW
  THEN [g EXCEPT !.state = YELLOW_WINS, !.current_player = YELLOW]
  ELSE [g EXCEPT !.current_player = IF g.current_player = RED THEN YELLOW ELSE RED]

\* handle_click, lines 252-262: the game's state after check_win's verdict.
DecideWinner(g, winner) ==
  IF winner = RED THEN [g EXCEPT !.state = RED_WINS]
  ELSE IF winner = YELLOW THEN [g EXCEPT !.state = YELLOW_WINS]
  ELSE [g EXCEPT !.current_player = IF g.current_player = RED THEN YELLOW ELSE RED]

\* CommitMove with line 245 after line 250: the board is saved after the move.
CommitMove_saves_after(g, target_cell) ==
  LET removed == IF g.original_cell # NoCell
                 THEN remove_piece(g, g.original_cell[1], g.original_cell[2],
                                   g.selected_piece)
                 ELSE g
      added == add_piece(removed, target_cell[1], target_cell[2], g.selected_piece)
      saved == save_state(added)
      decided == DecideWinner(saved, check_win(saved))
  IN  update_reserve_positions(ClearSelection(decided))

\* handle_click, lines 243-267: the committed move of the selected piece. Each
\* statement's result is bound in turn (saved, removed, added, decided).
CommitMove(g, target_cell) ==
  LET saved == save_state(g)
      removed == IF g.original_cell # NoCell
                 THEN remove_piece(saved, g.original_cell[1], g.original_cell[2],
                                   g.selected_piece)
                 ELSE saved
      added == add_piece(removed, target_cell[1], target_cell[2], g.selected_piece)
      decided == DecideWinner(added, check_win(added))
  IN  update_reserve_positions(ClearSelection(decided))

\* PlayingBranch without the owner test of line 276: any top piece is selected.
PlayingBranch_any_owner(g, pos) ==
  LET cell == CellAtClick[pos]
  IN  IF g.selected_piece # NoPiece
      THEN IF cell # NoCell
           THEN IF g.original_cell = cell THEN "deselect"
                ELSE IF can_place_piece(g.cells[cell[1]][cell[2]], g.selected_piece)
                THEN "commit"
                ELSE "rejected"
           ELSE "cancel"
      ELSE IF cell # NoCell /\ g.cells[cell[1]][cell[2]] # <<>>
      THEN "select_board"
      ELSE IF ReserveHit(g, pos[1], pos[2]) # NoPiece THEN "select_reserve"
      ELSE "nothing"

\* The branch of handle_click, lines 234-287, that a click at pos takes in a
\* game that is being played.
PlayingBranch(g, pos) ==
  LET cell == CellAtClick[pos]
  IN  IF g.selected_piece # NoPiece
      THEN IF cell # NoCell
           THEN IF g.original_cell = cell THEN "deselect"
                ELSE IF can_place_piece(g.cells[cell[1]][cell[2]], g.selected_piece)
                THEN "commit"
                ELSE "rejected"
           ELSE "cancel"
      ELSE IF /\ cell # NoCell
              /\ g.cells[cell[1]][cell[2]] # <<>>
              /\ piece_player(top_piece(g.cells[cell[1]][cell[2]])) = g.current_player
      THEN "select_board"
      ELSE IF ReserveHit(g, pos[1], pos[2]) # NoPiece THEN "select_reserve"
      ELSE "nothing"

\* Branch without lines 230-232: a click is handled as a move after the game is over.
Branch_ignores_game_over(g, pos) == PlayingBranch(g, pos)

\* The branch of handle_click that a click at pos takes.
Branch(g, pos) ==
  IF g.state # PLAYING THEN "reset" ELSE PlayingBranch(g, pos)

\* GobbletGame.handle_click(*pos)
handle_click(g, pos) ==
  LET cell == CellAtClick[pos]
      b == Branch(g, pos)
  IN  CASE b = "reset" -> reset_game(g)
        [] b = "deselect" -> ClearSelection(g)
        [] b = "commit" -> CommitMove(g, cell)
        [] b = "rejected" -> g
        [] b = "cancel" -> ClearSelection(g)
        [] b = "select_board" ->
             [g EXCEPT !.selected_piece = top_piece(g.cells[cell[1]][cell[2]]),
                       !.original_cell = cell]
        [] b = "select_reserve" ->
             [g EXCEPT !.selected_piece = ReserveHit(g, pos[1], pos[2]),
                       !.original_cell = NoCell]
        [] OTHER -> g

\* The number of clicks a run handles after its initial state.
MaxClicks == 4

\* The game after handle_click has handled the clicks of `seq`, first to last.
RECURSIVE PlayClicks(_, _)
PlayClicks(g, seq) ==
  IF seq = <<>> THEN g
  ELSE PlayClicks(handle_click(g, seq[1]), Tail(seq))

\* Openings: click sequences played from the new game, so that middle-game
\* positions are within MaxClicks clicks of an initial state.
\*  1: RED large (0,0), YELLOW small (1,0), RED large (0,1), YELLOW small (1,1).
\*  2: RED small (0,0), YELLOW medium on it, RED large on that, YELLOW small (2,2).
\*  3: opening 1, then RED medium on the small at (1,0), YELLOW medium (1,2).
\*  4: RED small (0,0), YELLOW medium on it, RED large (0,1), YELLOW small (1,0),
\*     RED large (0,2), YELLOW small (1,1), RED medium (2,2); then the
\*     relocations YELLOW (1,1) to (2,1), RED (2,2) to (2,0), YELLOW (2,1) to (1,1).
Openings ==
  {<<SlotClick(RED, 0, 0), CellClick(0, 0), SlotClick(YELLOW, 2, 0), CellClick(1, 0),
     SlotClick(RED, 0, 0), CellClick(0, 1), SlotClick(YELLOW, 2, 0), CellClick(1, 1)>>,
   <<SlotClick(RED, 0, 0), CellClick(0, 0), SlotClick(YELLOW, 2, 0), CellClick(1, 0),
     SlotClick(RED, 0, 0), CellClick(0, 1), SlotClick(YELLOW, 2, 0), CellClick(1, 1),
     SlotClick(RED, 1, 0), CellClick(1, 0), SlotClick(YELLOW, 1, 0), CellClick(1, 2)>>,
   <<SlotClick(RED, 2, 0), CellClick(0, 0), SlotClick(YELLOW, 1, 0), CellClick(0, 0),
     SlotClick(RED, 0, 0), CellClick(0, 0), SlotClick(YELLOW, 2, 0), CellClick(2, 2)>>,
   <<SlotClick(RED, 2, 0), CellClick(0, 0), SlotClick(YELLOW, 1, 0), CellClick(0, 0),
     SlotClick(RED, 0, 0), CellClick(0, 1), SlotClick(YELLOW, 2, 0), CellClick(1, 0),
     SlotClick(RED, 0, 0), CellClick(0, 2), SlotClick(YELLOW, 2, 0), CellClick(1, 1),
     SlotClick(RED, 1, 0), CellClick(2, 2),
     CellClick(1, 1), CellClick(2, 1), CellClick(2, 2), CellClick(2, 0),
     CellClick(2, 1), CellClick(1, 1)>>}

InitialGames == {NewGame} \cup {PlayClicks(NewGame, seq) : seq \in Openings}

NoCall == [fn |-> "none"]
NoRet == [done |-> FALSE]

\* --------------------------------------------------------- the game runs
Init ==
  /\ \E g \in InitialGames :
       /\ cells = g.cells /\ px = g.px /\ py = g.py
       /\ on_board = g.on_board /\ visible = g.visible
       /\ reserve_pieces = g.reserve_pieces /\ history = g.history
       /\ state = g.state /\ current_player = g.current_player
       /\ selected_piece = g.selected_piece /\ original_cell = g.original_cell
  /\ clicks = 0
  /\ click = <<>>
  /\ branch = "init"
  /\ call = NoCall
  /\ ret = NoRet

\* run, lines 340-345: handle_click handles one left click at pt.
Handle(pt) ==
    /\ \E g \in {handle_click(Game, pt)} :
           /\ cells' = g.cells /\ px' = g.px /\ py' = g.py
           /\ on_board' = g.on_board /\ visible' = g.visible
           /\ reserve_pieces' = g.reserve_pieces /\ history' = g.history
           /\ state' = g.state /\ current_player' = g.current_player
           /\ selected_piece' = g.selected_piece /\ original_cell' = g.original_cell
    /\ clicks' = clicks + 1
    /\ click' = pt
    /\ branch' = Branch(Game, pt)
    /\ UNCHANGED <<call, ret>>

\* handle_click, lines 230-232
ClickGameOver ==
  /\ clicks < MaxClicks
  /\ \E pt \in ClickPoints :
       /\ Branch(Game, pt) = "reset"
       /\ Handle(pt)
\* handle_click, lines 238-242
ClickOrigin ==
  /\ clicks < MaxClicks
  /\ selected_piece # NoPiece
  /\ \E pt \in ClickPoints :
       /\ Branch(Game, pt) = "deselect"
       /\ Handle(pt)
\* handle_click, lines 243-267
ClickPlace ==
  /\ clicks < MaxClicks
  /\ selected_piece # NoPiece
  /\ \E pt \in ClickPoints :
       /\ Branch(Game, pt) = "commit"
       /\ Handle(pt)
\* handle_click, line 243 false: nothing happens
ClickRejected ==
  /\ clicks < MaxClicks
  /\ selected_piece # NoPiece
  /\ \E pt \in ClickPoints :
       /\ Branch(Game, pt) = "rejected"
       /\ Handle(pt)
\* handle_click, lines 268-271
ClickCancel ==
  /\ clicks < MaxClicks
  /\ selected_piece # NoPiece
  /\ \E pt \in ClickPoints :
       /\ Branch(Game, pt) = "cancel"
       /\ Handle(pt)
\* handle_click, lines 275-279
ClickSelectBoard ==
  /\ clicks < MaxClicks
  /\ selected_piece = NoPiece
  /\ \E pt \in ClickPoints :
       /\ Branch(Game, pt) = "select_board"
       /\ Handle(pt)
\* handle_click, lines 281-287
ClickSelectReserve ==
  /\ clicks < MaxClicks
  /\ selected_piece = NoPiece
  /\ \E pt \in ClickPoints :
       /\ Branch(Game, pt) = "select_reserve"
       /\ Handle(pt)
\* handle_click, lines 275-287 with no hit
ClickNothing ==
  /\ clicks < MaxClicks
  /\ selected_piece = NoPiece
  /\ \E pt \in ClickPoints :
       /\ Branch(Game, pt) = "nothing"
       /\ Handle(pt)

Next ==
  \/ ClickGameOver
  \/ ClickOrigin
  \/ ClickPlace
  \/ ClickRejected
  \/ ClickCancel
  \/ ClickSelectBoard
  \/ ClickSelectReserve
  \/ ClickNothing

Spec == Init /\ [][Next]_vars

\* ------------------------------------------------- direct method calls
\* A matrix entry of check_win: None, a RED piece or a YELLOW piece.
MatrixEntries == {NoPiece, 1, PiecesPerPlayer + 1}
Matrices == [Rows -> [Cols -> MatrixEntries]]

\* The stacks of distinct pieces up to the deepest stack the gobbling rule
\* allows (one piece per size class), each piece out-ranking the one below it.
Stacks ==
  {st \in UNION {[1 .. n -> PieceIds] : n \in 0 .. NumSizes} :
     \A i \in 1 .. (Len(st) - 1) : piece_size(st[i + 1]) < piece_size(st[i])}

CallInputs ==
  {[fn |-> "check_win", vp |-> m] : m \in Matrices}
    \cup {[fn |-> "can_place_piece", pieces |-> st, piece |-> p] :
            st \in Stacks, p \in PieceIds}

InitCalls ==
  /\ cells = NewGame.cells /\ px = NewGame.px /\ py = NewGame.py
  /\ on_board = NewGame.on_board /\ visible = NewGame.visible
  /\ reserve_pieces = NewGame.reserve_pieces /\ history = NewGame.history
  /\ state = NewGame.state /\ current_player = NewGame.current_player
  /\ selected_piece = NewGame.selected_piece /\ original_cell = NewGame.original_cell
  /\ clicks = 0
  /\ click = <<>>
  /\ branch = "init"
  /\ call \in CallInputs
  /\ ret = NoRet

\* Board.check_win's scan of the matrix in the call.
CallCheckWin ==
  /\ call.fn = "check_win"
  /\ ~ret.done
  /\ ret' = [done |-> TRUE, value |-> check_win_matrix(call.vp)]
  /\ UNCHANGED <<gameVars, clicks, click, branch, call>>

\* Cell.can_place_piece on the stack and the piece in the call.
CallCanPlacePiece ==
  /\ call.fn = "can_place_piece"
  /\ ~ret.done
  /\ ret' = [done |-> TRUE, value |-> can_place_piece(call.pieces, call.piece)]
  /\ UNCHANGED <<gameVars, clicks, click, branch, call>>

NextCalls ==
  \/ CallCheckWin
  \/ CallCanPlacePiece

SpecCalls == InitCalls /\ [][NextCalls]_vars

\* ================================================================ claims
\* The eight winning lines, as sets of <<row, col>>.
WinLines ==
  {{<<r, c>> : c \in Cols} : r \in Rows}
    \cup {{<<r, c>> : r \in Rows} : c \in Cols}
    \cup {{<<i, i>> : i \in Rows}, {<<i, BOARD_SIZE - 1 - i>> : i \in Rows}}

\* Player `player` owns every entry of some winning line of the matrix vp.
OwnsLine(vp, player) ==
  \E line \in WinLines :
    \A rc \in line :
      vp[rc[1]][rc[2]] # NoPiece /\ piece_player(vp[rc[1]][rc[2]]) = player

\* The number of places piece p takes in the stacks of the board.
Occurrences(p) ==
  Cardinality(UNION {{<<rc, i>> : i \in {j \in 1 .. Len(cells[rc[1]][rc[2]]) :
                                            cells[rc[1]][rc[2]][j] = p}} :
                     rc \in Coords})

\* C1: every one of the 12 pieces (6 per player, 2 per size class) is either in
\* its owner's reserve (on_board false, in no stack) or in exactly one stack
\* exactly once (on_board true), also while a piece is selected.
C1_PieceExclusivity ==
  /\ \A player \in Player :
       /\ Len(reserve_pieces[player]) = 6
       /\ \A k \in 1 .. 6 : piece_player(reserve_pieces[player][k]) = player
       /\ \A size \in 0 .. 2 :
            Cardinality({k \in 1 .. 6 : piece_size(reserve_pieces[player][k]) = size}) = 2
  /\ Cardinality(Range(reserve_pieces[RED]) \cup Range(reserve_pieces[YELLOW])) = 12
  /\ \A rc \in Coords : Range(cells[rc[1]][rc[2]]) \subseteq PieceIds
  /\ \A p \in PieceIds :
       \/ ~on_board[p] /\ Occurrences(p) = 0
       \/ on_board[p] /\ Occurrences(p) = 1

\* C1's case: a piece taken from the top of a stack of two is selected and not
\* yet placed, while a piece of the player is still in reserve.
C1_Witness ==
  /\ selected_piece # NoPiece
  /\ original_cell # NoCell
  /\ Len(cells[original_cell[1]][original_cell[2]]) >= 2
  /\ on_board[selected_piece]
  /\ \E p \in PieceIds : piece_player(p) = current_player /\ ~on_board[p]

\* C2: in every non-empty cell exactly the last piece of the stack is visible,
\* every piece below it is not, and every reserve piece is visible.
C2_OnlyTopVisible ==
  /\ \A rc \in Coords :
       \A i \in 1 .. Len(cells[rc[1]][rc[2]]) :
         visible[cells[rc[1]][rc[2]][i]] <=> (i = Len(cells[rc[1]][rc[2]]))
  /\ \A p \in PieceIds : ~on_board[p] => visible[p]

\* C2's case: the move just committed took the top piece off a stack of two or
\* more (the snapshot taken before it shows the longer stack), uncovering a
\* piece, and a piece is still covered on the board after it.
C2_Witness ==
  /\ branch = "commit"
  /\ \E rc \in Coords :
       LET before == history[Len(history)][rc[1] * BOARD_SIZE + rc[2] + 1]
           now == cells[rc[1]][rc[2]]
       IN  /\ Len(before) >= 2
           /\ Len(now) = Len(before) - 1
           /\ visible[now[Len(now)]]
           /\ ~before[Len(now)].visible
  /\ \E rc \in Coords : Len(cells[rc[1]][rc[2]]) >= 2

\* C3: can_place_piece is true iff the stack is empty or the piece's size index
\* is strictly smaller than the top piece's (its radius strictly larger); a
\* piece that is not physically larger than the top piece is rejected, whoever
\* owns the top piece.
C3_GobbleLegality ==
  (call.fn = "can_place_piece" /\ ret.done) =>
    LET top == call.pieces[Len(call.pieces)]
    IN  /\ ret.value <=>
             (call.pieces = <<>> \/ piece_size(call.piece) < piece_size(top))
        /\ ret.value <=>
             (call.pieces = <<>> \/ piece_radius(call.piece) > piece_radius(top))

\* C3's case: a piece of the size of the top piece, which the opponent owns,
\* has been rejected.
C3_Witness ==
  /\ call.fn = "can_place_piece"
  /\ ret.done
  /\ call.pieces # <<>>
  /\ piece_size(call.piece) = piece_size(call.pieces[Len(call.pieces)])
  /\ piece_player(call.piece) # piece_player(call.pieces[Len(call.pieces)])
  /\ ~ret.value

\* C4 as stated: check_win returns RED iff some line is entirely RED, YELLOW
\* iff some line is entirely YELLOW, and none iff neither player has a line.
C4_WinDetection_AsStated ==
  (call.fn = "check_win" /\ ret.done) =>
    /\ (ret.value = RED) <=> OwnsLine(call.vp, RED)
    /\ (ret.value = YELLOW) <=> OwnsLine(call.vp, YELLOW)
    /\ (ret.value = NoPlayer) <=> (~OwnsLine(call.vp, RED) /\ ~OwnsLine(call.vp, YELLOW))

\* C4, amended: check_win returns RED iff some line is entirely RED, YELLOW iff
\* some line is entirely YELLOW and no line is entirely RED, and none iff
\* neither player has a line.
C4_WinDetection ==
  (call.fn = "check_win" /\ ret.done) =>
    /\ (ret.value = RED) <=> OwnsLine(call.vp, RED)
    /\ (ret.value = YELLOW) <=> (OwnsLine(call.vp, YELLOW) /\ ~OwnsLine(call.vp, RED))
    /\ (ret.value = NoPlayer) <=> (~OwnsLine(call.vp, RED) /\ ~OwnsLine(call.vp, YELLOW))

\* C4's case: check_win has scanned a matrix in which both players have a line
\* and has returned RED.
C4_Witness ==
  /\ call.fn = "check_win"
  /\ ret.done
  /\ OwnsLine(call.vp, RED)
  /\ OwnsLine(call.vp, YELLOW)
  /\ ret.value = RED

\* The other player.
Opponent(player) == IF player = RED THEN YELLOW ELSE RED

\* A step that commits a move: it appends one snapshot to the history.
MoveCommitted == Len(history') = Len(history) + 1

\* C5: a committed move that leaves the game PLAYING hands the turn to the
\* other player, one that ends the game leaves current_player as it was, and
\* no other step of a game being played changes current_player.
C5_TurnAlternation ==
  [][IF MoveCommitted
     THEN /\ state' = PLAYING => current_player' = Opponent(current_player)
          /\ state' # PLAYING => current_player' = current_player
     ELSE state = PLAYING => current_player' = current_player]_vars

\* C5's case: YELLOW has committed a move that ended the game and is still the
\* current player, after moves that handed the turn over.
C5_Witness ==
  /\ branch = "commit"
  /\ state # PLAYING
  /\ current_player = YELLOW
  /\ Len(history) >= 2

\* The game is as reset_game leaves it: PLAYING, RED to move, the nine cells
\* empty, six reserve pieces per player (two per size class), all off the board
\* and visible, nothing selected, no origin cell, an empty history.
FreshMatch(g) ==
  /\ g.state = PLAYING
  /\ g.current_player = RED
  /\ \A row \in 0 .. 2 : \A col \in 0 .. 2 : g.cells[row][col] = <<>>
  /\ \A player \in {RED, YELLOW} :
       /\ Len(g.reserve_pieces[player]) = 6
       /\ \A size \in 0 .. 2 :
            Cardinality({k \in 1 .. 6 :
                           /\ piece_size(g.reserve_pieces[player][k]) = size
                           /\ piece_player(g.reserve_pieces[player][k]) = player}) = 2
       /\ \A k \in 1 .. 6 :
            /\ ~g.on_board[g.reserve_pieces[player][k]]
            /\ g.visible[g.reserve_pieces[player][k]]
  /\ Cardinality(Range(g.reserve_pieces[RED]) \cup Range(g.reserve_pieces[YELLOW])) = 12
  /\ g.selected_piece = NoPiece
  /\ g.original_cell = NoCell
  /\ g.history = <<>>

C7_ResetYieldsFreshMatch ==
  /\ FreshMatch(reset_game(Game))
  /\ branch = "reset" => FreshMatch(Game)

\* C7's case: the click handler has reset a finished game.
C7_Witness ==
  /\ branch = "reset"
  /\ clicks >= 3
  /\ FreshMatch(Game)

\* The top piece of cell rc is at least as large as piece p.
TopBlocks(rc, p) ==
  /\ cells[rc[1]][rc[2]] # <<>>
  /\ piece_radius(top_piece(cells[rc[1]][rc[2]])) >= piece_radius(p)

\* C8: with a piece selected, a click on a cell other than the origin whose
\* top piece is of equal or larger physical size changes nothing: the stacks,
\* the pieces' fields, the reserves, the history, the player, the state, the
\* selection and its origin stay as they were.
C8_RejectedPlacement ==
  [][(/\ state = PLAYING
      /\ selected_piece # NoPiece
      /\ CellAtClick[click'] # NoCell
      /\ CellAtClick[click'] # original_cell
      /\ TopBlocks(CellAtClick[click'], selected_piece))
     => UNCHANGED gameVars]_vars

\* C8's case: a click on a cell whose top piece, the opponent's, has the size of
\* the selected piece has been handled, and the piece is still selected.
C8_Witness ==
  /\ branch = "rejected"
  /\ selected_piece # NoPiece
  /\ CellAtClick[click] # NoCell
  /\ LET top == top_piece(cells[CellAtClick[click][1]][CellAtClick[click][2]])
     IN  /\ top # NoPiece
         /\ piece_size(top) = piece_size(selected_piece)
         /\ piece_player(top) # piece_player(selected_piece)

\* C9: with a piece selected, a click on its origin cell or outside every cell
\* clears the selection and the origin and changes nothing else: no stack, no
\* piece's field, no reserve, no history entry, not the player, not the state.
C9_Deselect ==
  [][(/\ state = PLAYING
      /\ selected_piece # NoPiece
      /\ CellAtClick[click'] \in {original_cell, NoCell})
     => /\ selected_piece' = NoPiece
        /\ original_cell' = NoCell
        /\ UNCHANGED <<cells, px, py, on_board, visible, reserve_pieces, history,
                       state, current_player>>]_vars

\* C9's case: a board piece has been put back on its own cell, after at least
\* one committed move, and nothing is selected.
C9_Witness ==
  /\ branch = "deselect"
  /\ selected_piece = NoPiece
  /\ CellAtClick[click] # NoCell
  /\ cells[CellAtClick[click][1]][CellAtClick[click][2]] # <<>>
  /\ history # <<>>

\* The matrix of the top pieces that are visible.
VisibleTops ==
  [row \in Rows |-> [col \in Cols |->
     IF top_piece(cells[row][col]) # NoPiece /\ visible[top_piece(cells[row][col])]
     THEN top_piece(cells[row][col]) ELSE NoPiece]]

BothHaveLine == OwnsLine(VisibleTops, RED) /\ OwnsLine(VisibleTops, YELLOW)

\* C10 as stated: in no reachable state do both players have a complete line
\* of their own visible top pieces.
C10_NoDoubleLine_AsStated == ~BothHaveLine

\* C10, amended: both players have a complete line at the same time only in a
\* finished game, never in one being played, and the game then stands at
\* RED_WINS (it arises when a relocation uncovers a piece at its origin).
C10_DoubleLineOnlyWhenOver == BothHaveLine => state = RED_WINS

\* C10's case: the move just committed left both players with a complete line.
C10_Witness ==
  /\ branch = "commit"
  /\ BothHaveLine
  /\ state = RED_WINS

\* The board as save_state would record it now.
BoardNow == Snapshot(Game)

\* A step that changes a stack of the board of a game being played.
BoardChanged == state = PLAYING /\ cells' # cells

\* The step appends one snapshot, the board as it is before the step.
AppendsBoardBefore == history' = Append(history, BoardNow)

\* The history in a step of a game being played: a step that changes the board
\* appends the board before it, every other step appends nothing, and the
\* committed moves are the steps that change the board.
HistoryStep ==
  state = PLAYING =>
    /\ BoardChanged => AppendsBoardBefore
    /\ ~BoardChanged => history' = history
    /\ (branch' = "commit") <=> BoardChanged
    /\ branch' \in {"select_board", "select_reserve", "deselect", "cancel",
                     "rejected", "nothing"} => history' = history

\* C11 as stated: every committed move appends exactly one snapshot, the full
\* stacks as they were before the move, every other step appends nothing, and
\* the board resulting from the latest move is not in the history.
C11_Snapshots_AsStated ==
  [][/\ HistoryStep
     /\ BoardChanged =>
          \A i \in 1 .. Len(history') : history'[i] # Snapshot(Game')]_vars

\* C11, amended: every committed move appends exactly one snapshot, the full
\* stacks as they were before the move, every other step appends nothing, and
\* the snapshot the latest move appended is not the board that resulted from
\* it (an earlier snapshot equals that board when a position repeats).
C11_Snapshots ==
  [][/\ HistoryStep
     /\ BoardChanged => history'[Len(history')] # Snapshot(Game')]_vars

\* C11's case: a relocation has been committed, the last snapshot shows the
\* board before it, and an earlier snapshot equals the board it left.
C11_Witness ==
  /\ branch = "commit"
  /\ Len(history) >= 2
  /\ history[Len(history)] # BoardNow
  /\ \E i \in 1 .. (Len(history) - 1) : history[i] = BoardNow

\* check_win has scanned a matrix in which both players have a complete line.
ScannedDoubleLine ==
  /\ call.fn = "check_win"
  /\ ret.done
  /\ OwnsLine(call.vp, RED)
  /\ OwnsLine(call.vp, YELLOW)

\* C12 as stated: on a board where both players have a complete line, check_win
\* reports the owner of the line that comes first in the scan order rows 0, 1,
\* 2, columns 0, 1, 2, main diagonal, anti-diagonal.
C12_ScanOrderTieBreak_AsStated ==
  ScannedDoubleLine => ret.value = FirstLineOwner(call.vp)

\* C12, amended: on a board where both players have a complete line, check_win
\* reports RED, wherever the two lines are: all of RED's lines are scanned
\* before any of YELLOW's.
C12_RedFirstTieBreak ==
  ScannedDoubleLine => ret.value = RED

\* C12's case: YELLOW's line comes first in the scan order, RED has a line
\* too, and check_win has reported RED.
C12_Witness ==
  /\ ScannedDoubleLine
  /\ FirstLineOwner(call.vp) = YELLOW
  /\ ret.value = RED

\* C13: the state agrees with the board: in a game being played no row, column
\* or diagonal consists of three visible top pieces of one player; at RED_WINS
\* RED has such a line and at YELLOW_WINS YELLOW has one, also when the line
\* was completed by a piece that a relocation uncovered at its origin cell.
C13_StateAgreesWithBoard ==
  /\ state = PLAYING =>
       ~OwnsLine(VisibleTops, RED) /\ ~OwnsLine(VisibleTops, YELLOW)
  /\ state = RED_WINS => OwnsLine(VisibleTops, RED)
  /\ state = YELLOW_WINS => OwnsLine(VisibleTops, YELLOW)

\* C13's case: RED has relocated a piece and the game stands at YELLOW_WINS:
\* YELLOW's line runs through the origin cell, whose top piece the move
\* uncovered, and not through the destination cell.
C13_Witness ==
  /\ branch = "commit"
  /\ state = YELLOW_WINS
  /\ current_player = RED
  /\ CellAtClick[click] # NoCell
  /\ \E line \in WinLines :
       /\ \A rc \in line : OwnedBy(VisibleTops[rc[1]][rc[2]], YELLOW)
       /\ CellAtClick[click] \notin line
       /\ \E rc \in line :
            Len(history[Len(history)][rc[1] * BOARD_SIZE + rc[2] + 1])
              = Len(cells[rc[1]][rc[2]]) + 1

\* C14: the state leaves PLAYING only in the step of a committed move and only
\* to RED_WINS or YELLOW_WINS; select, deselect, cancel, rejected placement and
\* a click that hits nothing never change the state; DRAW is never reached.
C14_StateTransitions ==
  [][/\ state # DRAW
     /\ state' # DRAW
     /\ (state = PLAYING /\ state' # PLAYING) =>
          /\ MoveCommitted
          /\ branch' = "commit"
          /\ state' \in {RED_WINS, YELLOW_WINS}
     /\ branch' \in {"select_board", "select_reserve", "deselect", "cancel",
                     "rejected", "nothing"} => state' = state]_vars

\* C14's case: RED's own committed move has taken the game from PLAYING to
\* RED_WINS, after earlier moves that left it PLAYING.
C14_Witness ==
  /\ branch = "commit"
  /\ state = RED_WINS
  /\ current_player = RED
  /\ Len(history) >= 3

\* The selection is well-formed: the selected piece belongs to the current
\* player and is the top piece of its origin cell, or a reserve piece that is
\* not on the board and has no origin.
SelectionOwned(piece, cell, player, stacks, placed) ==
  piece # NoPiece =>
    /\ piece_player(piece) = player
    /\ \/ /\ cell # NoCell
          /\ stacks[cell[1]][cell[2]] # <<>>
          /\ stacks[cell[1]][cell[2]][Len(stacks[cell[1]][cell[2]])] = piece
       \/ /\ cell = NoCell
          /\ ~placed[piece]

\* Every reserve piece's hit box lies beside the board, RED's to the left of
\* it and YELLOW's to the right: no position is in a cell and in a hit box, or
\* in hit boxes of both players.
ReserveBesideBoard ==
  \A p \in PieceIds :
    ~on_board[p] =>
      IF piece_player(p) = RED
      THEN px[p] + PIECE_SIZES[piece_size(p) + 1] < BOARD_OFFSET_X
      ELSE px[p] - PIECE_SIZES[piece_size(p) + 1]
             >= BOARD_OFFSET_X + BOARD_SIZE * CELL_SIZE

\* The click is on a reserve piece of the player who is not to move.
OnOpponentReserve(pos) ==
  \E p \in PieceIds :
    /\ piece_player(p) # current_player
    /\ ~on_board[p]
    /\ px[p] - PIECE_SIZES[piece_size(p) + 1] <= pos[1]
    /\ pos[1] <= px[p] + PIECE_SIZES[piece_size(p) + 1]
    /\ py[p] - PIECE_SIZES[piece_size(p) + 1] <= pos[2]
    /\ pos[2] <= py[p] + PIECE_SIZES[piece_size(p) + 1]

\* The click is on an empty cell or on a cell whose top piece is the opponent's.
OnUnselectableCell(pos) ==
  /\ CellAtClick[pos] # NoCell
  /\ LET pieces == cells[CellAtClick[pos][1]][CellAtClick[pos][2]]
     IN  pieces = <<>> \/ piece_player(pieces[Len(pieces)]) # current_player

\* C15: a selected piece belongs to the current player and is the top piece of
\* its origin cell or an off-board reserve piece without origin; a select
\* attempt on an empty cell, on a cell topped by the opponent or on a reserve
\* piece of the opponent selects nothing; a step taken with nothing selected
\* changes no stack, piece field, reserve, history, player or state.
C15_SelectionOwnership ==
  [][/\ SelectionOwned(selected_piece, original_cell, current_player, cells, on_board)
     /\ SelectionOwned(selected_piece', original_cell', current_player', cells',
                       on_board')
     /\ ReserveBesideBoard
     /\ (state = PLAYING /\ selected_piece = NoPiece) =>
          /\ (OnUnselectableCell(click') \/ OnOpponentReserve(click')) =>
               selected_piece' = NoPiece /\ original_cell' = NoCell
          /\ UNCHANGED <<cells, px, py, on_board, visible, reserve_pieces,
                         history, state, current_player>>]_vars

\* C15's case: with nothing selected, a click on a cell whose top piece is the
\* opponent's, above a covered piece of the player to move, has selected nothing.
C15_Witness ==
  /\ branch = "nothing"
  /\ state = PLAYING
  /\ selected_piece = NoPiece
  /\ CellAtClick[click] # NoCell
  /\ LET pieces == cells[CellAtClick[click][1]][CellAtClick[click][2]]
     IN  /\ Len(pieces) >= 2
         /\ piece_player(pieces[Len(pieces)]) # current_player
         /\ piece_player(pieces[Len(pieces) - 1]) = current_player

\* C16: every cell's stack is strictly decreasing in size index from bottom to
\* top (each piece is physically larger than the piece directly below it), so
\* no stack holds more than 3 pieces and a large piece is never covered.
C16_StacksStrictlyDecreasing ==
  \A rc \in Coords :
    LET pieces == cells[rc[1]][rc[2]]
    IN  /\ \A i \in 1 .. (Len(pieces) - 1) :
             /\ piece_size(pieces[i + 1]) < piece_size(pieces[i])
             /\ PIECE_SIZES[piece_size(pieces[i + 1]) + 1]
                  > PIECE_SIZES[piece_size(pieces[i]) + 1]
             /\ piece_size(pieces[i]) # 0
        /\ Len(pieces) <= 3

\* C16's case: the move just committed pushed a piece onto a stack that now
\* holds three pieces, and an earlier move relocated a top piece (the board
\* holds fewer pieces than there are snapshots).
C16_Witness ==
  /\ branch = "commit"
  /\ CellAtClick[click] # NoCell
  /\ Len(cells[CellAtClick[click][1]][CellAtClick[click][2]]) = 3
  /\ Cardinality({p \in PieceIds : on_board[p]}) < Len(history)

\* Cell rc accepts piece p: it is empty or p is physically larger than its top.
Accepts(rc, p) ==
  \/ cells[rc[1]][rc[2]] = <<>>
  \/ PIECE_SIZES[piece_size(p) + 1]
       > PIECE_SIZES[piece_size(cells[rc[1]][rc[2]][Len(cells[rc[1]][rc[2]])]) + 1]

\* Piece p is a reserve piece or the top piece of a cell.
ReserveOrTop(p) ==
  \/ ~on_board[p]
  \/ \E rc \in Coords :
       cells[rc[1]][rc[2]] # <<>> /\ cells[rc[1]][rc[2]][Len(cells[rc[1]][rc[2]])] = p

\* Some click selects a piece of the current player, a reserve piece or a top
\* piece, and a click on some cell other than its origin, which accepts the
\* piece, then commits a move.
CanMove ==
  \E pt \in ClickPoints :
    /\ Branch(Game, pt) \in {"select_board", "select_reserve"}
    /\ \E g \in {handle_click(Game, pt)} :
         /\ g.selected_piece # NoPiece
         /\ piece_player(g.selected_piece) = current_player
         /\ ReserveOrTop(g.selected_piece)
         /\ \E rc \in Coords :
              /\ rc # g.original_cell
              /\ Accepts(rc, g.selected_piece)
              /\ Branch(g, CellClick(rc[1], rc[2])) = "commit"

C18_RedPriority ==
  [][MoveCommitted =>
       /\ OwnsLine(VisibleTops', RED) => state' = RED_WINS
       /\ state' = YELLOW_WINS =>
            OwnsLine(VisibleTops', YELLOW) /\ ~OwnsLine(VisibleTops', RED)]_vars

\* C18's case: YELLOW has moved, the move completed a line of YELLOW and
\* uncovered a piece that completed a line of RED, and RED, who did not move,
\* is the winner.
C18_Witness ==
  /\ branch = "commit"
  /\ current_player = YELLOW
  /\ OwnsLine(VisibleTops, YELLOW)
  /\ OwnsLine(VisibleTops, RED)
  /\ state = RED_WINS

\* The cells that hold one piece more than in the last snapshot: the
\* destination of the last committed move.
LastDestination ==
  {rc \in Coords :
     Len(cells[rc[1]][rc[2]])
       = Len(history[Len(history)][rc[1] * BOARD_SIZE + rc[2] + 1]) + 1}

\* C19: in a game being played current_player is RED iff the number of
\* snapshots in history is even and YELLOW iff it is odd; in a finished game
\* current_player is the player who made the last committed move (the owner
\* of the piece that move put down, the mover of move number Len(history)).
C19_TurnParity ==
  /\ state = PLAYING =>
       /\ (current_player = RED) <=> (Len(history) % 2 = 0)
       /\ (current_player = YELLOW) <=> (Len(history) % 2 = 1)
  /\ state # PLAYING =>
       /\ history # <<>>
       /\ Cardinality(LastDestination) = 1
       /\ \A rc \in LastDestination :
            piece_player(cells[rc[1]][rc[2]][Len(cells[rc[1]][rc[2]])]) = current_player
       /\ (current_player = RED) <=> (Len(history) % 2 = 1)

\* C19's case: YELLOW made the last committed move, an even-numbered one, the
\* game ended with RED as the winner, and current_player is still YELLOW.
C19_Witness ==
  /\ branch = "commit"
  /\ state = RED_WINS
  /\ current_player = YELLOW
  /\ Len(history) % 2 = 0
  /\ Len(history) >= 2

\* The number of pieces in the stacks of a board.
BoardCount(stacks) ==
  Cardinality({<<rc, i>> \in Coords \X (1 .. NumSizes) :
                 i <= Len(stacks[rc[1]][rc[2]])})

\* The number of pieces of a player that are not on the board.
ReserveCount(placed, player) ==
  Cardinality({p \in PieceIds : piece_player(p) = player /\ ~placed[p]})

\* C20: between resets a placed piece never returns to reserve: on_board stays
\* true, no player's number of reserve pieces increases, the number of pieces
\* on the board never decreases, a committed move from reserve raises it by
\* exactly one and a relocation leaves it unchanged.
C20_PiecesStayOnBoard ==
  [][state = PLAYING =>
       /\ \A p \in PieceIds : on_board[p] => on_board'[p]
       /\ \A player \in Player :
            ReserveCount(on_board', player) <= ReserveCount(on_board, player)
       /\ BoardCount(cells') >= BoardCount(cells)
       /\ BoardCount(cells) = Cardinality({p \in PieceIds : on_board[p]})
       /\ (MoveCommitted /\ original_cell = NoCell) =>
            /\ BoardCount(cells') = BoardCount(cells) + 1
            /\ ReserveCount(on_board', current_player)
                 = ReserveCount(on_board, current_player) - 1
       /\ (MoveCommitted /\ original_cell # NoCell) =>
            /\ BoardCount(cells') = BoardCount(cells)
            /\ on_board' = on_board]_vars

\* C20's case: a relocation onto another piece has been committed: the board
\* holds as many pieces as the snapshot taken before it, one of them covered
\* by the piece that moved, and every placed piece is still on_board.
C20_Witness ==
  /\ branch = "commit"
  /\ CellAtClick[click] # NoCell
  /\ Len(cells[CellAtClick[click][1]][CellAtClick[click][2]]) >= 2
  /\ BoardCount(cells)
       = Cardinality({<<k, i>> \in (1 .. (BOARD_SIZE * BOARD_SIZE)) \X (1 .. NumSizes) :
                        i <= Len(history[Len(history)][k])})
  /\ BoardCount(cells) = Cardinality({p \in PieceIds : on_board[p]})

====
